---- MODULE Spec2Model ----
(***************************************************************************)
(* Model of pkg/jobs/job_info_storage.go: the InfoStorage handle that      *)
(* reads, replaces and scans the rows of system.job_info on behalf of one  *)
(* job inside one transaction, fenced by the job's claim session recorded  *)
(* in system.jobs.                                                         *)
(*                                                                         *)
(* Byte strings ([]byte, BYTES) are sequences of naturals.  A nil slice is *)
(* the empty sequence: bytes.Equal, the only operation the code applies to *)
(* a possibly-nil slice, does not tell nil from empty.                     *)
(***************************************************************************)
EXTENDS Integers, Sequences, FiniteSets, TLC

(***************************************************************************)
(* Bounds and input sets.                                                  *)
(***************************************************************************)
MaxOps == 3        \* calls of Get/Write/Iterate/claim updates in one run of Spec
MaxFaults == 1     \* statements the backing store fails in one run
MaxLogRows == 3    \* rows of the pre-existing log that SpecLog starts from

Jobs == {1, 2}
Txns == {1, 2, 3}
NilTxn == 0
SessionIDs == {<<1>>, <<1, 1>>}
Values == {<<7>>, <<8>>}
SmallKeys == {<<>>, <<1>>}
AllKeys == {<<>>, <<1>>, <<1, 1>>, <<1, 2>>, <<2>>}
Prefixes == AllKeys \cup {<<1, 1, 1>>}
LogTimes == {0, 1}

\* The info keys of the legacy adapters: the bytes of "legacy_payload" and of
\* "legacy_progress".
legacyPayloadKey ==
    <<108, 101, 103, 97, 99, 121, 95, 112, 97, 121, 108, 111, 97, 100>>

\* Mutant: the two adapters share one key.
legacyProgressKey_Collides == legacyPayloadKey

legacyProgressKey ==
    <<108, 101, 103, 97, 99, 121, 95, 112, 114, 111, 103, 114, 101, 115, 115>>

GetLegacyPayloadKey == legacyPayloadKey
GetLegacyProgressKey == legacyProgressKey
LegacyKeys == {GetLegacyPayloadKey, GetLegacyProgressKey}

NilSlice == <<>>
NullDatum == <<-1>>      \* a datum that is not a DBytes (SQL NULL)

NoSession == [has |-> FALSE, id |-> NilSlice]
Session(id) == [has |-> TRUE, id |-> id]
JobSessions == {NoSession} \cup {Session(s) : s \in SessionIDs}

\* What SELECT claim_session_id FROM system.jobs WHERE id = $1 can find.
NoRow == [kind |-> "norow", id |-> NilSlice]
NullClaim == [kind |-> "null", id |-> NilSlice]
Claimed(s) == [kind |-> "bytes", id |-> s]
ClaimStates == {NoRow, NullClaim} \cup {Claimed(s) : s \in SessionIDs}

InfoRow(j, k, w, v) == [job_id |-> j, info_key |-> k, written |-> w, value |-> v]

(***************************************************************************)
(* Byte-string helpers.                                                    *)
(***************************************************************************)
Min(a, b) == IF a <= b THEN a ELSE b

bytes_Equal(a, b) == Len(a) = Len(b) /\ \A i \in 1..Len(a) : a[i] = b[i]

\* Lexicographic order of BYTES, the order of ORDER BY info_key ASC.
BytesLess(a, b) ==
    \E i \in 1..(Min(Len(a), Len(b)) + 1) :
        /\ \A n \in 1..(i - 1) : a[n] = b[n]
        /\ \/ i > Len(a) /\ i <= Len(b)
           \/ i <= Len(a) /\ i <= Len(b) /\ a[i] < b[i]

\* substring(info_key for n): the first n bytes, fewer when the key is shorter.
substring(key, n) == SubSeq(key, 1, Min(n, Len(key)))

IsDBytes(d) == d # NullDatum

(***************************************************************************)
(* The statements the handle issues, by what their SQL text computes on    *)
(* the transaction's view of the two tables.                               *)
(***************************************************************************)
KeyRows(rows, job, infoKey) ==
    {r \in rows : r.job_id = job /\ r.info_key = infoKey}

\* Mutant: ORDER BY written ASC LIMIT 1.
JobInfoGetQuery_Oldest(rows, job, infoKey) ==
    LET m == KeyRows(rows, job, infoKey)
    IN  IF m = {} THEN <<>>
        ELSE <<CHOOSE r \in m : \A o \in m : r.written <= o.written>>

\* SELECT value FROM system.job_info WHERE job_id = $1 AND info_key = $2
\* ORDER BY written DESC LIMIT 1: a sequence holding the row, or no row.
JobInfoGetQuery(rows, job, infoKey) ==
    LET m == KeyRows(rows, job, infoKey)
    IN  IF m = {} THEN <<>>
        ELSE <<CHOOSE r \in m : \A o \in m : o.written <= r.written>>

\* Mutant: the older revisions are not cleared out.
JobInfoDeleteStmt_Keep(rows, job, infoKey) == rows

\* Mutant: DELETE FROM system.job_info WHERE job_id = $1.
JobInfoDeleteStmt_WholeJob(rows, job, infoKey) == {r \in rows : r.job_id # job}

\* DELETE FROM system.job_info WHERE job_id = $1 AND info_key = $2
JobInfoDeleteStmt(rows, job, infoKey) == rows \ KeyRows(rows, job, infoKey)

\* The primary key of system.job_info is (job_id, info_key, written).
PrimaryKeyTaken(rows, job, infoKey, written) ==
    \E r \in rows : r.job_id = job /\ r.info_key = infoKey /\ r.written = written

\* INSERT INTO system.job_info (job_id, info_key, written, value)
\* VALUES ($1, $2, now(), $3); now() is the transaction's timestamp.
JobInfoInsertStmt(rows, job, infoKey, now, value) ==
    rows \cup {InfoRow(job, infoKey, now, value)}

\* Mutant: ORDER BY info_key ASC, written ASC.
RowBefore_WrittenAsc(a, b) ==
    \/ BytesLess(a.info_key, b.info_key)
    \/ a.info_key = b.info_key /\ a.written < b.written

\* ORDER BY info_key ASC, written DESC
RowBefore(a, b) ==
    \/ BytesLess(a.info_key, b.info_key)
    \/ a.info_key = b.info_key /\ a.written > b.written

RECURSIVE OrderBy(_)
OrderBy(S) ==
    IF S = {} THEN <<>>
    ELSE LET m == CHOOSE r \in S : \A o \in S : ~RowBefore(o, r)
         IN  <<m>> \o OrderBy(S \ {m})

\* SELECT info_key, value FROM system.job_info
\* WHERE job_id = $1 AND substring(info_key for $2) = $3
\* ORDER BY info_key ASC, written DESC, with $2 = len(infoPrefix).
JobInfoIterQuery(rows, job, infoPrefix) ==
    OrderBy({r \in rows : /\ r.job_id = job
                          /\ substring(r.info_key, Len(infoPrefix)) = infoPrefix})

(***************************************************************************)
(* Errors.  NoErr is Go's nil error.                                       *)
(***************************************************************************)
NoErr == "nil"
ErrNoTxn == "no associated txn"
ErrNoClaimRow == "expected session but found none"
ErrClaimMismatch == "expected session but found another"
ErrStore == "backing store error"
ErrDuplicateKey == "duplicate key"
ErrAssertion == "assertion failed: not DBytes"
ErrVisit == "visit error"
ErrRetry == "transaction retry"
Panic == "panic: interface conversion"

\* Mutant: the stored claim is compared as a prefix (bytes.HasPrefix).
checkClaimSession_Prefix(row, session, queryErr) ==
    IF queryErr THEN ErrStore
    ELSE IF row.kind = "norow" THEN ErrNoClaimRow
    ELSE IF row.kind = "null" THEN Panic
    ELSE IF ~bytes_Equal(SubSeq(row.id, 1, Len(session.id)), session.id)
    THEN ErrClaimMismatch
    ELSE NoErr

\* Mutant: a job without a row or without a claim passes the check.
checkClaimSession_Lenient(row, session, queryErr) ==
    IF queryErr THEN ErrStore
    ELSE IF row.kind # "bytes" THEN NoErr
    ELSE IF ~bytes_Equal(row.id, session.id) THEN ErrClaimMismatch
    ELSE NoErr

(***************************************************************************)
(* checkClaimSession: row is what the query found for the job, queryErr    *)
(* whether QueryRowEx itself failed.  A NULL claim_session_id is not a     *)
(* *tree.DBytes, and the unchecked type assertion on it panics.            *)
(***************************************************************************)
checkClaimSession(row, session, queryErr) ==
    IF queryErr THEN ErrStore
    ELSE IF row.kind = "norow" THEN ErrNoClaimRow
    ELSE IF row.kind = "null" THEN Panic
    ELSE IF ~bytes_Equal(row.id, session.id) THEN ErrClaimMismatch
    ELSE NoErr

(***************************************************************************)
(* get: ([]byte, bool, error) from the transaction's view.                 *)
(***************************************************************************)
GetResult(value, found, err) == [value |-> value, found |-> found, err |-> err]

get(rows, job, infoKey, queryErr) ==
    LET row == JobInfoGetQuery(rows, job, infoKey)
    IN  IF queryErr THEN GetResult(NilSlice, FALSE, ErrStore)
        ELSE IF row = <<>> THEN GetResult(NilSlice, FALSE, NoErr)
        ELSE IF ~IsDBytes(row[1].value) THEN GetResult(NilSlice, FALSE, ErrAssertion)
        ELSE GetResult(row[1].value, TRUE, NoErr)

(***************************************************************************)
(* iterate.  rs is the cursor's row sequence, n the number of rows.Next    *)
(* calls made so far, nextErr the call of rows.Next that fails (0: none),  *)
(* visitErr the keys on which fn returns an error.  visited lists the      *)
(* (infoKey, value) pairs fn was invoked with, in order.                   *)
(***************************************************************************)
Visit(infoKey, value) == [infoKey |-> infoKey, value |-> value]

RECURSIVE iterate_loop(_, _, _, _, _, _)
iterate_loop(rs, n, prevKey, visited, nextErr, visitErr) ==
    IF n + 1 = nextErr THEN [visited |-> visited, err |-> ErrStore]
    ELSE IF n + 1 > Len(rs) THEN [visited |-> visited, err |-> NoErr]
    ELSE LET row == rs[n + 1]
             infoKey == row.info_key
         IN  IF ~IsDBytes(infoKey)
             THEN [visited |-> visited, err |-> ErrAssertion]
             ELSE IF bytes_Equal(infoKey, prevKey)
             THEN iterate_loop(rs, n + 1, prevKey, visited, nextErr, visitErr)
             ELSE IF ~IsDBytes(row.value)
             THEN [visited |-> visited, err |-> ErrAssertion]
             ELSE IF infoKey \in visitErr
             THEN [visited |-> Append(visited, Visit(infoKey, row.value)),
                   err |-> ErrVisit]
             ELSE iterate_loop(rs, n + 1, infoKey,
                               Append(visited, Visit(infoKey, row.value)),
                               nextErr, visitErr)

IterResult(visited, err, opened, closed) ==
    [visited |-> visited, err |-> err, opened |-> opened, closed |-> closed]

\* errors.CombineErrors(retErr, it.Close()): the first error wins.
CombineErrors(err, closeErr) ==
    IF err # NoErr THEN err ELSE IF closeErr THEN ErrStore ELSE NoErr

\* Mutant: rows.Close() is called after the loop instead of being deferred,
\* so the early returns skip it.
iterate_NoDefer(rows, job, infoPrefix, openErr, nextErr, closeErr, visitErr) ==
    IF openErr THEN IterResult(<<>>, ErrStore, 0, 0)
    ELSE LET r == iterate_loop(JobInfoIterQuery(rows, job, infoPrefix), 0,
                               NilSlice, <<>>, nextErr, visitErr)
         IN  IF r.err = NoErr
             THEN IterResult(r.visited, CombineErrors(r.err, closeErr), 1, 1)
             ELSE IterResult(r.visited, r.err, 1, 0)

iterate(rows, job, infoPrefix, openErr, nextErr, closeErr, visitErr) ==
    IF openErr THEN IterResult(<<>>, ErrStore, 0, 0)
    ELSE LET r == iterate_loop(JobInfoIterQuery(rows, job, infoPrefix), 0,
                               NilSlice, <<>>, nextErr, visitErr)
         IN  IterResult(r.visited, CombineErrors(r.err, closeErr), 1, 1)

(***************************************************************************)
(* State.  The committed tables, and per transaction its view of them      *)
(* (a snapshot taken when it begins, changed by its own statements), the   *)
(* spans it read and wrote, and the spans other transactions committed     *)
(* since it began.  An InfoStorage handle is (job, txn): handle[t] is the  *)
(* job and the session of the Job object, t the transaction; NilTxn is the *)
(* handle built with a nil transaction.                                    *)
(***************************************************************************)
VARIABLES
    job_info,   \* committed system.job_info: a set of rows
    jobs,       \* committed system.jobs: job -> claim_session_id
    now,        \* transactions begun so far; the n-th has timestamp n
    status,     \* t -> "idle" | "open" | "closed"
    ended,      \* how the transaction closed last ended
    handle,     \* t -> [job, session]
    vinfo,      \* t -> the transaction's view of system.job_info
    vjobs,      \* t -> the transaction's view of system.jobs
    rset,       \* t -> spans read
    wset,       \* t -> spans written
    stale,      \* t -> spans committed by others since t began
    pc,         \* t -> "ready" | "delete" | "insert": position inside write
    call,       \* t -> arguments of the write in progress
    ret,        \* handle -> what its last call returned
    nops,       \* calls made
    faults,     \* statements failed by the backing store
    seen,       \* history: (job, key) -> outcome of the last Write t can see
    lastw,      \* history: (job, key) -> outcome of the last committed Write
    checked     \* history: t -> a Write of t passed checkClaimSession

vars == <<job_info, jobs, now, status, ended, handle, vinfo, vjobs, rset, wset, stale,
          pc, call, ret, nops, faults, seen, lastw, checked>>

Handles == Txns \cup {NilTxn}

InfoSpan(job, infoKey) == <<"job_info", job, infoKey>>
JobSpan(job) == <<"jobs", job, NilSlice>>

\* seq numbers the calls of a run: the call that returned was the seq-th.
Ret(seq, op, infoKey, value, found, err, visited, opened, closed) ==
    [seq |-> seq, op |-> op, infoKey |-> infoKey, value |-> value,
     found |-> found, err |-> err, visited |-> visited, opened |-> opened,
     closed |-> closed]
NoRet == Ret(0, "none", NilSlice, NilSlice, FALSE, NoErr, <<>>, 0, 0)
WriteRet(seq, infoKey, value, err) ==
    Ret(seq, "Write", infoKey, value, FALSE, err, <<>>, 0, 0)
GetRet(seq, infoKey, r) ==
    Ret(seq, "Get", infoKey, r.value, r.found, r.err, <<>>, 0, 0)
IterateRet(seq, infoPrefix, r) ==
    Ret(seq, "Iterate", infoPrefix, NilSlice, FALSE, r.err, r.visited, r.opened,
        r.closed)

Ended(t, op, err, wrote, fenced) ==
    [txn |-> t, op |-> op, err |-> err, wrote |-> wrote, fenced |-> fenced]
NoneEnded == Ended(NilTxn, "none", NoErr, FALSE, FALSE)

NoCall == [seq |-> 0, infoKey |-> NilSlice, value |-> NilSlice]
\* state: "none" (no Write), "ok" (the last Write returned nil), "partial" (the
\* last Write deleted and did not insert); n counts the Writes that returned nil.
NoWrite == [state |-> "none", value |-> NilSlice, n |-> 0]
\* The legacy adapters are exercised on job 1.
Pairs == (Jobs \X AllKeys) \cup ({1} \X LegacyKeys)
NothingWritten == [p \in Pairs |-> NoWrite]

Idle ==
    /\ status = [t \in Txns |-> "idle"]
    /\ ended = NoneEnded
    /\ handle = [t \in Txns |-> [job |-> 1, session |-> NoSession]]
    /\ vinfo = [t \in Txns |-> {}]
    /\ vjobs = [t \in Txns |-> [j \in Jobs |-> NoRow]]
    /\ rset = [t \in Txns |-> {}]
    /\ wset = [t \in Txns |-> {}]
    /\ stale = [t \in Txns |-> {}]
    /\ pc = [t \in Txns |-> "ready"]
    /\ call = [t \in Txns |-> NoCall]
    /\ ret = [h \in Handles |-> NoRet]
    /\ now = 0
    /\ nops = 0
    /\ faults = 0
    /\ seen = [t \in Txns |-> NothingWritten]
    /\ lastw = NothingWritten
    /\ checked = [t \in Txns |-> FALSE]

\* Spec starts from an empty system.job_info; job 1 has no row in system.jobs
\* or is claimed by some session, job 2 has a row with a NULL claim.
Init ==
    /\ job_info = {}
    /\ jobs \in {f \in [Jobs -> ClaimStates] :
                    f[1] # NullClaim /\ f[2] = NullClaim}
    /\ Idle

(***************************************************************************)
(* The transaction engine behind isql.Txn: snapshot views, validation of   *)
(* the read and write spans at commit (a transaction that overlaps a       *)
(* committed conflicting one is refused and must retry).                   *)
(***************************************************************************)
TxnTimestamp(t) == t

WroteInfo(t) == \E sp \in wset[t] : sp[1] = "job_info"

\* A closed transaction leaves nothing behind but how it ended; the spans
\* in published are from now on stale for the transactions still open.
Closes(t, op, err, published) ==
    /\ status' = [status EXCEPT ![t] = "closed"]
    /\ ended' = Ended(t, op, err, WroteInfo(t), checked[t])
    /\ ret' = [ret EXCEPT ![t] = NoRet]
    /\ stale' = [u \in Txns |->
                   IF u # t /\ status[u] = "open"
                   THEN stale[u] \cup published ELSE {}]
    /\ handle' = [handle EXCEPT ![t] = [job |-> 1, session |-> NoSession]]
    /\ vinfo' = [vinfo EXCEPT ![t] = {}]
    /\ vjobs' = [vjobs EXCEPT ![t] = [j \in Jobs |-> NoRow]]
    /\ rset' = [rset EXCEPT ![t] = {}]
    /\ wset' = [wset EXCEPT ![t] = {}]
    /\ pc' = [pc EXCEPT ![t] = "ready"]
    /\ call' = [call EXCEPT ![t] = NoCall]
    /\ seen' = [seen EXCEPT ![t] = NothingWritten]
    /\ checked' = [checked EXCEPT ![t] = FALSE]

Close(t, op, err) == Closes(t, op, err, {})
Commits(t, op, err) == Closes(t, op, err, wset[t])

\* j.InfoStorage(txn) on a transaction that has just begun.
InfoStorage(t, j, session) ==
    /\ status[t] = "idle"
    /\ t = now + 1
    /\ now' = t
    /\ status' = [status EXCEPT ![t] = "open"]
    /\ handle' = [handle EXCEPT ![t] = [job |-> j, session |-> session]]
    /\ vinfo' = [vinfo EXCEPT ![t] = job_info]
    /\ vjobs' = [vjobs EXCEPT ![t] = jobs]
    /\ seen' = [seen EXCEPT ![t] = lastw]
    /\ UNCHANGED <<job_info, jobs, ended, rset, wset, stale, pc, call, ret, nops,
                   faults, lastw, checked>>

Conflicts(t) == (rset[t] \cup wset[t]) \cap stale[t] # {}

Commit(t) ==
    /\ status[t] = "open"
    /\ pc[t] = "ready"
    /\ IF Conflicts(t)
       THEN /\ Close(t, "Commit", ErrRetry)
            /\ UNCHANGED <<job_info, jobs, lastw>>
       ELSE /\ job_info' =
                   {r \in job_info : InfoSpan(r.job_id, r.info_key) \notin wset[t]}
                   \cup {r \in vinfo[t] : InfoSpan(r.job_id, r.info_key) \in wset[t]}
            /\ jobs' = [j \in Jobs |->
                           IF JobSpan(j) \in wset[t] THEN vjobs[t][j] ELSE jobs[j]]
            /\ lastw' = [p \in Pairs |->
                           IF InfoSpan(p[1], p[2]) \in wset[t]
                           THEN seen[t][p] ELSE lastw[p]]
            /\ Commits(t, "Commit", NoErr)
    /\ UNCHANGED <<now, nops, faults>>

Rollback(t) ==
    /\ status[t] = "open"
    /\ pc[t] = "ready"
    /\ Close(t, "Rollback", NoErr)
    /\ UNCHANGED <<job_info, jobs, now, nops, faults, lastw>>

\* Another component (the job registry) records a new claim on job j.
UpdateClaim(t, j, claim) ==
    /\ status[t] = "open"
    /\ pc[t] = "ready"
    /\ vjobs' = [vjobs EXCEPT ![t][j] = claim]
    /\ wset' = [wset EXCEPT ![t] = @ \cup {JobSpan(j)}]
    /\ ret' = [ret EXCEPT ![t] = NoRet]
    /\ nops' = nops + 1
    /\ UNCHANGED <<job_info, jobs, now, status, ended, handle, vinfo, rset,
                   stale, pc, call, faults, seen, lastw, checked>>

(***************************************************************************)
(* The calls of the handle.  A call on NilTxn fails before any statement.  *)
(***************************************************************************)
NoTxnCall(r) ==
    /\ ret' = [ret EXCEPT ![NilTxn] = r]
    /\ nops' = nops + 1
    /\ UNCHANGED <<job_info, jobs, now, status, ended, handle, vinfo, vjobs,
                   rset, wset, stale, pc, call, faults, seen, lastw, checked>>

\* Mutant: the claim is read outside the handle's transaction, so the read
\* is not part of what the commit validates.
ClaimReadSpans_Outside(j, queryErr) == {}

\* The span checkClaimSession reads through the handle's transaction.
ClaimReadSpans(j, queryErr) ==
    IF j.session.has /\ ~queryErr THEN {JobSpan(j.job)} ELSE {}

\* write, up to and including the claim check.
write(h, infoKey, value, queryErr) ==
    IF h = NilTxn
    THEN ~queryErr /\ NoTxnCall(WriteRet(nops + 1, infoKey, value, ErrNoTxn))
    ELSE
    LET j == handle[h]
        err == IF j.session.has
               THEN checkClaimSession(vjobs[h][j.job], j.session, queryErr)
               ELSE NoErr
    IN  /\ status[h] = "open"
        /\ pc[h] = "ready"
        /\ queryErr => j.session.has /\ faults < MaxFaults
        /\ faults' = IF queryErr THEN faults + 1 ELSE faults
        /\ nops' = nops + 1
        /\ IF err = Panic
           THEN Close(h, "Write", Panic)
           ELSE /\ rset' = [rset EXCEPT ![h] = @ \cup ClaimReadSpans(j, queryErr)]
                /\ pc' = [pc EXCEPT ![h] = IF err = NoErr THEN "delete" ELSE "ready"]
                /\ call' = [call EXCEPT ![h] =
                              IF err = NoErr
                              THEN [seq |-> nops + 1, infoKey |-> infoKey,
                                    value |-> value]
                              ELSE NoCall]
                /\ ret' = [ret EXCEPT ![h] =
                             IF err = NoErr THEN NoRet
                             ELSE WriteRet(nops + 1, infoKey, value, err)]
                /\ checked' = [checked EXCEPT ![h] =
                                 @ \/ (j.session.has /\ err = NoErr)]
                /\ UNCHANGED <<status, ended, handle, vinfo, vjobs, wset, stale,
                               seen>>
        /\ UNCHANGED <<job_info, jobs, now, lastw>>

\* Mutant: the delete is executed outside the handle's transaction, straight
\* on the committed table.
write_delete_Autocommit(t, execErr) ==
    LET j == handle[t]
        c == call[t]
    IN  /\ status[t] = "open"
        /\ pc[t] = "delete"
        /\ ~execErr
        /\ job_info' = JobInfoDeleteStmt(job_info, j.job, c.infoKey)
        /\ vinfo' = [vinfo EXCEPT ![t] = JobInfoDeleteStmt(@, j.job, c.infoKey)]
        /\ seen' = [seen EXCEPT ![t][<<j.job, c.infoKey>>] =
                       [@ EXCEPT !.state = "partial", !.value = NilSlice]]
        /\ pc' = [pc EXCEPT ![t] = "insert"]
        /\ UNCHANGED <<jobs, now, status, ended, handle, vjobs, rset, wset, stale,
                       call, ret, nops, faults, lastw, checked>>

\* Mutant: the error of the delete is dropped and the insert is issued.
write_delete_IgnoreErr(t, execErr) ==
    LET j == handle[t]
        c == call[t]
    IN  /\ status[t] = "open"
        /\ pc[t] = "delete"
        /\ execErr => faults < MaxFaults
        /\ faults' = IF execErr THEN faults + 1 ELSE faults
        /\ vinfo' = [vinfo EXCEPT ![t] =
                       IF execErr THEN @
                       ELSE JobInfoDeleteStmt(@, j.job, c.infoKey)]
        /\ wset' = [wset EXCEPT ![t] = @ \cup {InfoSpan(j.job, c.infoKey)}]
        /\ seen' = [seen EXCEPT ![t][<<j.job, c.infoKey>>] =
                       [@ EXCEPT !.state = "partial", !.value = NilSlice]]
        /\ pc' = [pc EXCEPT ![t] = "insert"]
        /\ UNCHANGED <<job_info, jobs, now, status, ended, handle, vjobs, rset,
                       stale, call, ret, nops, lastw, checked>>

\* write: "First clear out any older revisions of this info."
write_delete(t, execErr) ==
    LET j == handle[t]
        c == call[t]
    IN  /\ status[t] = "open"
        /\ pc[t] = "delete"
        /\ execErr => faults < MaxFaults
        /\ faults' = IF execErr THEN faults + 1 ELSE faults
        /\ IF execErr
           THEN /\ ret' = [ret EXCEPT ![t] =
                             WriteRet(c.seq, c.infoKey, c.value, ErrStore)]
                /\ pc' = [pc EXCEPT ![t] = "ready"]
                /\ call' = [call EXCEPT ![t] = NoCall]
                /\ UNCHANGED <<vinfo, wset, seen>>
           ELSE /\ vinfo' = [vinfo EXCEPT ![t] =
                               JobInfoDeleteStmt(@, j.job, c.infoKey)]
                /\ wset' = [wset EXCEPT ![t] = @ \cup {InfoSpan(j.job, c.infoKey)}]
                /\ seen' = [seen EXCEPT ![t][<<j.job, c.infoKey>>] =
                               [@ EXCEPT !.state = "partial", !.value = NilSlice]]
                /\ pc' = [pc EXCEPT ![t] = "insert"]
                /\ UNCHANGED <<ret, call>>
        /\ UNCHANGED <<job_info, jobs, now, status, ended, handle, vjobs, rset,
                       stale, nops, lastw, checked>>

\* write: "Write the new info, using the same transaction."
write_insert(t, execErr) ==
    LET j == handle[t]
        c == call[t]
        dup == PrimaryKeyTaken(vinfo[t], j.job, c.infoKey, TxnTimestamp(t))
        err == IF execErr THEN ErrStore
               ELSE IF dup THEN ErrDuplicateKey ELSE NoErr
    IN  /\ status[t] = "open"
        /\ pc[t] = "insert"
        /\ execErr => faults < MaxFaults
        /\ faults' = IF execErr THEN faults + 1 ELSE faults
        /\ ret' = [ret EXCEPT ![t] = WriteRet(c.seq, c.infoKey, c.value, err)]
        /\ pc' = [pc EXCEPT ![t] = "ready"]
        /\ call' = [call EXCEPT ![t] = NoCall]
        /\ IF err = NoErr
           THEN /\ vinfo' = [vinfo EXCEPT ![t] =
                               JobInfoInsertStmt(@, j.job, c.infoKey,
                                                 TxnTimestamp(t), c.value)]
                /\ seen' = [seen EXCEPT ![t][<<j.job, c.infoKey>>] =
                               [state |-> "ok", value |-> c.value, n |-> @.n + 1]]
           ELSE UNCHANGED <<vinfo, seen>>
        /\ UNCHANGED <<job_info, jobs, now, status, ended, handle, vjobs, rset,
                       wset, stale, nops, lastw, checked>>

\* Mutant: without a transaction the query runs on its own, against the
\* committed table.
Get_Autocommit(h, infoKey, queryErr) ==
    IF h = NilTxn
    THEN /\ ~queryErr
         /\ NoTxnCall(GetRet(nops + 1, infoKey, get(job_info, 1, infoKey, FALSE)))
    ELSE
    /\ status[h] = "open"
    /\ pc[h] = "ready"
    /\ queryErr => faults < MaxFaults
    /\ faults' = IF queryErr THEN faults + 1 ELSE faults
    /\ nops' = nops + 1
    /\ ret' = [ret EXCEPT ![h] =
                 GetRet(nops + 1, infoKey,
                        get(vinfo[h], handle[h].job, infoKey, queryErr))]
    /\ rset' = [rset EXCEPT ![h] =
                  IF queryErr THEN @ ELSE @ \cup {InfoSpan(handle[h].job, infoKey)}]
    /\ UNCHANGED <<job_info, jobs, now, status, ended, handle, vinfo, vjobs,
                   wset, stale, pc, call, seen, lastw, checked>>

\* Mutant: Get runs the claim check first, as write does.
Get_Fenced(h, infoKey, queryErr) ==
    IF h = NilTxn
    THEN /\ ~queryErr
         /\ NoTxnCall(GetRet(nops + 1, infoKey, GetResult(NilSlice, FALSE, ErrNoTxn)))
    ELSE
    LET j == handle[h]
        err == IF j.session.has
               THEN checkClaimSession(vjobs[h][j.job], j.session, FALSE)
               ELSE NoErr
    IN
    /\ status[h] = "open"
    /\ pc[h] = "ready"
    /\ queryErr => faults < MaxFaults
    /\ faults' = IF queryErr THEN faults + 1 ELSE faults
    /\ nops' = nops + 1
    /\ ret' = [ret EXCEPT ![h] =
                 GetRet(nops + 1, infoKey,
                        IF err # NoErr THEN GetResult(NilSlice, FALSE, err)
                        ELSE get(vinfo[h], handle[h].job, infoKey, queryErr))]
    /\ rset' = [rset EXCEPT ![h] =
                  IF queryErr THEN @ ELSE @ \cup {InfoSpan(handle[h].job, infoKey)}]
    /\ UNCHANGED <<job_info, jobs, now, status, ended, handle, vinfo, vjobs,
                   wset, stale, pc, call, seen, lastw, checked>>

Get(h, infoKey, queryErr) ==
    IF h = NilTxn
    THEN /\ ~queryErr
         /\ NoTxnCall(GetRet(nops + 1, infoKey, GetResult(NilSlice, FALSE, ErrNoTxn)))
    ELSE
    /\ status[h] = "open"
    /\ pc[h] = "ready"
    /\ queryErr => faults < MaxFaults
    /\ faults' = IF queryErr THEN faults + 1 ELSE faults
    /\ nops' = nops + 1
    /\ ret' = [ret EXCEPT ![h] =
                 GetRet(nops + 1, infoKey,
                        get(vinfo[h], handle[h].job, infoKey, queryErr))]
    /\ rset' = [rset EXCEPT ![h] =
                  IF queryErr THEN @ ELSE @ \cup {InfoSpan(handle[h].job, infoKey)}]
    /\ UNCHANGED <<job_info, jobs, now, status, ended, handle, vinfo, vjobs,
                   wset, stale, pc, call, seen, lastw, checked>>

\* fault: which cursor operation the backing store fails, if any.
IterFaults == {"none", "open", "next1", "next2", "close"}

Iterate(h, infoPrefix, fault, visitErr) ==
    IF h = NilTxn
    THEN /\ fault = "none" /\ visitErr = {}
         /\ NoTxnCall(IterateRet(nops + 1, infoPrefix,
                                  IterResult(<<>>, ErrNoTxn, 0, 0)))
    ELSE
    LET nextErr == IF fault = "next1" THEN 1 ELSE IF fault = "next2" THEN 2 ELSE 0
    IN  /\ status[h] = "open"
        /\ pc[h] = "ready"
        /\ fault # "none" => faults < MaxFaults
        /\ faults' = IF fault # "none" THEN faults + 1 ELSE faults
        /\ nops' = nops + 1
        /\ ret' = [ret EXCEPT ![h] =
                     IterateRet(nops + 1, infoPrefix,
                                iterate(vinfo[h], handle[h].job, infoPrefix,
                                        fault = "open", nextErr, fault = "close",
                                        visitErr))]
        /\ rset' = [rset EXCEPT ![h] =
                      IF fault = "open" THEN @
                      ELSE @ \cup {InfoSpan(handle[h].job, k) : k \in
                                     {k \in AllKeys :
                                        substring(k, Len(infoPrefix)) = infoPrefix}}]
        /\ UNCHANGED <<job_info, jobs, now, status, ended, handle, vinfo, vjobs,
                       wset, stale, pc, call, seen, lastw, checked>>

(***************************************************************************)
(* The legacy adapters: Get and Write on the two fixed keys.               *)
(***************************************************************************)
GetLegacyPayload(h, queryErr) == Get(h, legacyPayloadKey, queryErr)

WriteLegacyPayload(h, payload, queryErr) ==
    write(h, legacyPayloadKey, payload, queryErr)

GetLegacyProgress(h, queryErr) == Get(h, legacyProgressKey, queryErr)

WriteLegacyProgress(h, progress, queryErr) ==
    write(h, legacyProgressKey, progress, queryErr)

(***************************************************************************)
(* Specifications.  A call draws its arguments from the input sets of the  *)
(* record in; at most conc transactions are open at once.                  *)
(***************************************************************************)
Call(in) ==
    \E h \in in.H :
        \/ \E k \in in.K, v \in Values, e \in BOOLEAN : write(h, k, v, e)
        \/ \E k \in in.K, e \in BOOLEAN : Get(h, k, e)
        \/ \E p \in in.P, f \in in.F, ve \in in.VE : Iterate(h, p, f, ve)
        \/ \E j \in in.CJ, c \in in.CC : h # NilTxn /\ UpdateClaim(h, j, c)

Step(T, J, S, conc) ==
    \E t \in T :
        \/ /\ Cardinality({u \in Txns : status[u] = "open"}) < conc
           /\ \E j \in J, s \in S : InfoStorage(t, j, s)
        \/ \E e \in BOOLEAN : write_delete(t, e)
        \/ \E e \in BOOLEAN : write_insert(t, e)
        \/ Commit(t)
        \/ Rollback(t)

\* Spec: transactions run one after another, on both jobs, under any session.
SeqInputs ==
    [H |-> Txns, K |-> SmallKeys, P |-> {<<>>}, F |-> {"none"}, VE |-> {{}},
     CJ |-> {1}, CC |-> {Claimed(<<1, 1>>)}]

Next ==
    \/ nops < MaxOps /\ Call(SeqInputs)
    \/ Step(Txns, Jobs, {NoSession, Session(<<1>>)}, 1)

Spec == Init /\ [][Next]_vars

\* SpecConc: two transactions of job 1 at once, one of them possibly the
\* registry moving the claim from session <<1>> to session <<1, 1>>.
InitConc ==
    /\ job_info = {}
    /\ jobs = [j \in Jobs |-> IF j = 1 THEN Claimed(<<1>>) ELSE NullClaim]
    /\ Idle

ConcInputs ==
    [H |-> {1, 2}, K |-> {<<1>>}, P |-> {<<>>}, F |-> {"none"}, VE |-> {{}},
     CJ |-> {1}, CC |-> {Claimed(<<1, 1>>)}]

NextConc ==
    \/ nops < MaxOps /\ Call(ConcInputs)
    \/ Step({1, 2}, {1}, {NoSession, Session(<<1>>)}, 2)

SpecConc == InitConc /\ [][NextConc]_vars

\* SpecLog: one call on a handle whose transaction sees an arbitrary
\* pre-existing log, several revisions per key included.
LogValue(w) == IF w = 0 THEN <<7>> ELSE <<8>>

LogUniverse ==
    {InfoRow(1, k, w, LogValue(w)) : k \in AllKeys, w \in LogTimes}
    \cup {InfoRow(2, <<1>>, w, LogValue(w)) : w \in LogTimes}
    \cup {InfoRow(1, <<1, 1>>, 1, NullDatum)}

Logs ==
    {L \in SUBSET LogUniverse :
        /\ Cardinality(L) <= MaxLogRows
        /\ \A a, b \in L :
              (a.job_id = b.job_id /\ a.info_key = b.info_key
                 /\ a.written = b.written) => a = b}

InitLog ==
    /\ job_info \in Logs
    /\ jobs = [j \in Jobs |-> IF j = 1 THEN Claimed(<<1>>) ELSE NullClaim]
    /\ Idle

LogInputs ==
    [H |-> {1, NilTxn}, K |-> AllKeys, P |-> Prefixes, F |-> IterFaults,
     VE |-> {{}, {<<1>>}, {<<1, 2>>}},
     CJ |-> {1}, CC |-> {Claimed(<<1, 1>>)}]

NextLog ==
    \/ nops = 0 /\ Call(LogInputs)
    \/ Step({1}, Jobs, {NoSession, Session(<<1>>)}, 1)

SpecLog == InitLog /\ [][NextLog]_vars

\* SpecLegacy: transactions of job 1, one after another, that use the legacy
\* adapters and Get/Write on an unrelated key.
InitLegacy ==
    /\ job_info = {}
    /\ jobs = [j \in Jobs |-> IF j = 1 THEN Claimed(<<1>>) ELSE NullClaim]
    /\ Idle

CallLegacy(h) ==
    \/ \E p \in Values, e \in BOOLEAN : WriteLegacyPayload(h, p, e)
    \/ \E q \in Values, e \in BOOLEAN : WriteLegacyProgress(h, q, e)
    \/ \E e \in BOOLEAN : GetLegacyPayload(h, e)
    \/ \E e \in BOOLEAN : GetLegacyProgress(h, e)
    \/ \E v \in Values : write(h, <<1>>, v, FALSE)
    \/ Get(h, <<1>>, FALSE)

NextLegacy ==
    \/ nops < MaxOps /\ \E h \in {1, 2} : CallLegacy(h)
    \/ Step({1, 2}, {1}, {NoSession, Session(<<1>>)}, 1)

SpecLegacy == InitLegacy /\ [][NextLegacy]_vars

(***************************************************************************)
(* Properties.                                                             *)
(***************************************************************************)
Open(t) == status[t] = "open"
Returned(t, op) == Open(t) /\ pc[t] = "ready" /\ ret[t].op = op
Found(value) == GetResult(value, TRUE, NoErr)
NotFound == GetResult(NilSlice, FALSE, NoErr)

\* C1. Latest-wins: once Writes of a key have been committed one after another,
\* the last of them returning nil with value vN, the committed table holds at
\* most one row for (job, key), a Get on it finds vN, and the Get of a fresh
\* transaction (one that has written nothing) returns (vN, true).
C1_LatestWins ==
    /\ \A p \in Pairs :
         lastw[p].state = "ok" =>
            /\ Cardinality(KeyRows(job_info, p[1], p[2])) <= 1
            /\ get(job_info, p[1], p[2], FALSE) = Found(lastw[p].value)
    /\ \A t \in Txns :
         LET p == <<handle[t].job, ret[t].infoKey>>
         IN  (Returned(t, "Get") /\ ret[t].err = NoErr /\ wset[t] = {}
                /\ seen[t][p].state = "ok")
             => (ret[t].found /\ ret[t].value = seen[t][p].value)

\* Witness of C1: a fresh transaction's Get found the value of the second of
\* two committed Writes of the key.
C1_Witness ==
    \E t \in Txns :
        /\ Returned(t, "Get") /\ ret[t].found /\ wset[t] = {}
        /\ lastw[<<handle[t].job, ret[t].infoKey>>].n >= 2
        /\ ret[t].value = lastw[<<handle[t].job, ret[t].infoKey>>].value

\* The step in which transaction t enters write: it moves on to the delete,
\* returns an error of the claim check, or panics.
WriteEntry(t) ==
    /\ Open(t) /\ pc[t] = "ready" /\ nops' = nops + 1
    /\ \/ pc'[t] = "delete"
       \/ ret'[t].op = "Write" /\ ret'[t].seq = nops'
       \/ ended'.txn = t /\ ended'.op = "Write"

NoFault == faults' = faults

\* rows holds exactly the row a Write of value by t leaves for (job, key).
StoredIn(rows, t, infoKey, value) ==
    /\ KeyRows(rows, handle[t].job, infoKey) =
          {InfoRow(handle[t].job, infoKey, TxnTimestamp(t), value)}
    /\ get(rows, handle[t].job, infoKey, FALSE) = Found(value)

Stored(t, infoKey, value) == StoredIn(vinfo[t], t, infoKey, value)

\* C2. Claim fencing: when job J's recorded claim is S1, a Write through a
\* handle of session S2 # S1 returns the mismatch error without deleting or
\* inserting (the view and the committed table are unchanged), and a Write
\* through a handle of session S1 goes through delete and insert and returns
\* nil with the value stored, the backing store failing no statement.
C2_ClaimFencing ==
    [][\A t \in Txns :
         LET j == handle[t]
             row == vjobs[t][j.job]
         IN  /\ (WriteEntry(t) /\ j.session.has /\ row.kind = "bytes" /\ NoFault) =>
                  IF row.id = j.session.id
                  THEN pc'[t] = "delete" /\ vinfo'[t] = vinfo[t]
                  ELSE /\ ret'[t].err = ErrClaimMismatch
                       /\ pc'[t] = "ready"
                       /\ vinfo'[t] = vinfo[t]
                       /\ wset'[t] = wset[t]
                       /\ job_info' = job_info
             /\ (Open(t) /\ pc[t] = "delete" /\ pc'[t] # "delete" /\ NoFault) =>
                  pc'[t] = "insert"
             /\ (Open(t) /\ pc[t] = "insert" /\ pc'[t] # "insert" /\ NoFault) =>
                  /\ ret'[t] = WriteRet(call[t].seq, call[t].infoKey,
                                        call[t].value, NoErr)
                  /\ StoredIn(vinfo'[t], t, call[t].infoKey, call[t].value)
      ]_vars

\* Witness of C2: a Write was refused with the mismatch error on a job that
\* has records, and left them in place.
C2_Witness ==
    \E t \in Txns :
        /\ Returned(t, "Write") /\ ret[t].err = ErrClaimMismatch
        /\ vjobs[t][handle[t].job].kind = "bytes"
        /\ KeyRows(vinfo[t], handle[t].job, ret[t].infoKey) # {}
        /\ vinfo[t] = job_info

\* C3 as stated: on a job with a recorded claim S no Write returns nil unless
\* the caller's handle carries a session byte-identical to S, whatever the
\* handle carries, a handle without a session included.
C3_Original ==
    \A t \in Txns :
        LET j == handle[t]
            row == vjobs[t][j.job]
        IN  (Returned(t, "Write") /\ ret[t].err = NoErr /\ row.kind = "bytes")
            => (j.session.has /\ bytes_Equal(row.id, j.session.id))

\* C3 amended: on a job with a recorded claim S, a Write through a handle that
\* carries a session returns nil, or changes any record, only if that session
\* is byte-identical to S; a handle that carries no session is not checked.
C3_FencedCallers ==
    /\ [](\A t \in Txns :
            LET j == handle[t]
                row == vjobs[t][j.job]
            IN  /\ (Returned(t, "Write") /\ ret[t].err = NoErr /\ j.session.has)
                     => (row.kind = "bytes" /\ row.id = j.session.id)
                /\ (Open(t) /\ j.session.has /\ pc[t] # "ready")
                     => (row.kind = "bytes" /\ row.id = j.session.id)
                /\ (Returned(t, "Write") /\ ~j.session.has)
                     => ret[t].err \notin {ErrClaimMismatch, ErrNoClaimRow})
    /\ [][\A t \in Txns :
             LET j == handle[t]
                 row == vjobs[t][j.job]
             IN  (Open(t) /\ j.session.has /\ row.kind = "bytes"
                    /\ row.id # j.session.id)
                 => (vinfo'[t] = vinfo[t] \/ ~Open(t)')
       ]_vars

\* Witness of C3: on a job claimed by another session, one handle with a
\* session is refused.
C3_Witness ==
    \E t \in Txns :
        /\ Returned(t, "Write") /\ ret[t].err = ErrClaimMismatch
        /\ handle[t].session.has
        /\ vjobs[t][handle[t].job].kind = "bytes"
        /\ vjobs[t][handle[t].job].id # handle[t].session.id

Unclaimed(t) == vjobs[t][handle[t].job].kind \in {"norow", "null"}

KeysUnder(t, infoPrefix) ==
    {r.info_key : r \in {x \in vinfo[t] :
        /\ x.job_id = handle[t].job
        /\ Len(x.info_key) >= Len(infoPrefix)
        /\ \A i \in 1..Len(infoPrefix) : x.info_key[i] = infoPrefix[i]}}

\* v is the value of the revision of (job, key) with the greatest written time.
NewestValue(t, infoKey, v) ==
    \E r \in KeyRows(vinfo[t], handle[t].job, infoKey) :
        /\ r.value = v
        /\ \A o \in KeyRows(vinfo[t], handle[t].job, infoKey) :
              o.written <= r.written

\* C5. Iterate, over a log that may hold several revisions per key, invokes
\* visit at most once per key, only on keys of the job under the prefix, in
\* strictly ascending key order, each time with the value of the key's
\* revision that has the greatest written time.
C5_IterateDedupOrder ==
    \A t \in Txns :
        Returned(t, "Iterate") =>
            LET vis == ret[t].visited
            IN  /\ \A i \in 1..Len(vis) :
                     /\ vis[i].infoKey \in KeysUnder(t, ret[t].infoKey)
                     /\ NewestValue(t, vis[i].infoKey, vis[i].value)
                /\ \A i \in 1..(Len(vis) - 1) :
                     BytesLess(vis[i].infoKey, vis[i + 1].infoKey)
                /\ \A i, k \in 1..Len(vis) :
                     vis[i].infoKey = vis[k].infoKey => i = k

\* Witness of C5: Iterate visited two keys, one of which has two revisions.
C5_Witness ==
    \E t \in Txns :
        /\ Returned(t, "Iterate") /\ Len(ret[t].visited) >= 2
        /\ \E i \in 1..Len(ret[t].visited) :
             Cardinality(KeyRows(vinfo[t], handle[t].job,
                                 ret[t].visited[i].infoKey)) >= 2

\* C6 as stated: when visit never fails and Iterate returns nil, the keys
\* visited are exactly the keys of the job under the prefix, each once.
C6_IterateComplete ==
    \A t \in Txns :
        (Returned(t, "Iterate") /\ ret[t].err = NoErr) =>
            /\ {ret[t].visited[i].infoKey : i \in 1..Len(ret[t].visited)}
                  = KeysUnder(t, ret[t].infoKey)
            /\ Len(ret[t].visited) = Cardinality(KeysUnder(t, ret[t].infoKey))

\* C7. Atomicity under abort: the committed table changes only in the step
\* that commits a transaction; after a rollback (or a refused commit, or a
\* panic) of a transaction that wrote, every key is as the last committed
\* Write left it: its value if that Write returned nil, no row if there was
\* none, and what a fresh transaction's Get returns is that state.
C7_AtomicAbort ==
    /\ [](\A p \in Pairs :
            /\ lastw[p].state = "none" =>
                  get(job_info, p[1], p[2], FALSE) = NotFound
            /\ lastw[p].state = "ok" =>
                  get(job_info, p[1], p[2], FALSE) = Found(lastw[p].value))
    /\ [](\A t \in Txns :
            (Returned(t, "Get") /\ ret[t].err = NoErr /\ ~WroteInfo(t)) =>
               GetResult(ret[t].value, ret[t].found, ret[t].err)
                  = get(job_info, handle[t].job, ret[t].infoKey, FALSE))
    /\ [][job_info' # job_info =>
             (ended' # ended /\ ended'.op = "Commit" /\ ended'.err = NoErr)]_vars

\* Witness of C7: after a transaction that wrote was rolled back, a fresh
\* transaction's Get finds the value committed before it.
C7_Witness ==
    \E t \in Txns :
        /\ ended.op = "Rollback" /\ ended.wrote /\ ended.txn < t
        /\ Returned(t, "Get") /\ ret[t].found /\ ~WroteInfo(t)
        /\ lastw[<<handle[t].job, ret[t].infoKey>>].state = "ok"

\* The step in which transaction t commits.
Committed(t) ==
    /\ Open(t) /\ ~Open(t)'
    /\ ended'.txn = t /\ ended'.op = "Commit" /\ ended'.err = NoErr

\* C8. Two transactions that write the same (job, key) while both are open
\* never both commit: the one that commits second is refused and must retry;
\* the committed table never holds more than one row for a written key, and
\* that row is the one the last committed Write inserted.  A Write that is
\* under way in one transaction is invisible in the other's view.
C8_WritesSerialized ==
    /\ [][\A t \in Txns :
             Committed(t) => \A sp \in wset[t] : sp \notin stale[t]]_vars
    /\ [](\A p \in Pairs :
            /\ lastw[p].state # "none" =>
                  Cardinality(KeyRows(job_info, p[1], p[2])) <= 1
            /\ lastw[p].state = "ok" =>
                  \E r \in job_info :
                     /\ KeyRows(job_info, p[1], p[2]) = {r}
                     /\ r.value = lastw[p].value)
    /\ [](\A t, u \in Txns :
            (t # u /\ Open(t) /\ Open(u)) =>
               \A r \in vinfo[u] : r.written = TxnTimestamp(t) => r \in vinfo[t])

\* Witness of C8: of two transactions that wrote the same key while both were
\* open, one has committed and the other was refused at its commit.
C8_Witness ==
    /\ ended.op = "Commit" /\ ended.err = ErrRetry /\ ended.wrote
    /\ \E p \in Pairs : lastw[p].state = "ok" /\ lastw[p].n = 1
    /\ \A t \in {1, 2} : status[t] = "closed"

\* C9. A Write that passed the claim check under session S commits only if
\* the committed claim of the job is still S at the commit: when another
\* transaction has committed a different claim since the check, the writer's
\* commit is refused.
C9_ClaimCheckRaceFree ==
    [][\A t \in Txns :
         (Committed(t) /\ checked[t] /\ WroteInfo(t)) =>
            jobs[handle[t].job] = Claimed(handle[t].session.id)]_vars

\* Witness of C9: a transaction that wrote under a validated claim was
\* refused at commit after the claim had moved to another session.
C9_Witness ==
    /\ ended.op = "Commit" /\ ended.err = ErrRetry
    /\ ended.wrote /\ ended.fenced
    /\ jobs[1] = Claimed(<<1, 1>>)
    /\ job_info = {}

\* C10. Write post-condition: from any number of existing revisions of
\* (job, key), one written at the transaction's own timestamp included, a
\* Write that returns nil leaves exactly one row for (job, key), holding the
\* value, and a Get in the same transaction returns it; the insert never
\* fails on the primary key.
C10_WritePostcondition ==
    \A t \in Txns :
        Returned(t, "Write") =>
            /\ ret[t].err # ErrDuplicateKey
            /\ ret[t].err = NoErr => Stored(t, ret[t].infoKey, ret[t].value)

\* Witness of C10: a Write returned nil on a key that had two revisions, one
\* of them at the timestamp the new row received.
C10_Witness ==
    \E t \in Txns :
        /\ Returned(t, "Write") /\ ret[t].err = NoErr
        /\ Cardinality(KeyRows(job_info, handle[t].job, ret[t].infoKey)) = 2
        /\ \E r \in KeyRows(job_info, handle[t].job, ret[t].infoKey) :
              r.written = TxnTimestamp(t) /\ r.value # ret[t].value

\* The Write that t's handle returned from had deleted the key's revisions
\* and not inserted the new one.
DeletedOnly(t) == seen[t][<<handle[t].job, ret[t].infoKey>>].state = "partial"

\* C11 as stated: after a Write that returned an error, whichever step
\* failed, the caller's transaction sees for (job, key) the complete set of
\* revisions that was there before the Write.
C11_Original ==
    \A t \in Txns :
        (Returned(t, "Write") /\ ret[t].err # NoErr) =>
            KeyRows(vinfo[t], handle[t].job, ret[t].infoKey)
               = KeyRows(job_info, handle[t].job, ret[t].infoKey)

\* C11 amended: a failed Write never changes the committed table, which
\* changes only in the step that commits the caller's transaction, so no
\* other transaction sees a partial record before that commit.  Inside the
\* caller's transaction the pre-write set is intact when the claim check or
\* the delete failed; when the insert failed, the transaction sees the key
\* without any revision, all other rows as before.
C11_FailedWrite ==
    /\ [](\A t \in Txns :
            (Returned(t, "Write") /\ ret[t].err # NoErr) =>
               LET old == KeyRows(job_info, handle[t].job, ret[t].infoKey)
               IN  /\ ret[t].err \in {ErrNoClaimRow, ErrClaimMismatch, ErrStore}
                   /\ DeletedOnly(t) => ret[t].err = ErrStore
                   /\ vinfo[t] = IF DeletedOnly(t) THEN job_info \ old
                                 ELSE job_info)
    /\ [][job_info' # job_info =>
             (ended' # ended /\ ended'.op = "Commit" /\ ended'.err = NoErr)]_vars

\* Witness of C11: the insert of a Write failed on a key that had revisions.
C11_Witness ==
    \E t \in Txns :
        /\ Returned(t, "Write") /\ ret[t].err = ErrStore /\ DeletedOnly(t)
        /\ KeyRows(job_info, handle[t].job, ret[t].infoKey) # {}

\* The step in which a call of op through t's handle returns.
Returns(t, op) == Open(t) /\ ret'[t] # ret[t] /\ ret'[t].op = op

\* The newest revision of (job, key) in t's view holds a byte string.
NewestIsBytes(t, infoKey) ==
    \E r \in KeyRows(vinfo[t], handle[t].job, infoKey) :
        /\ IsDBytes(r.value)
        /\ \A o \in KeyRows(vinfo[t], handle[t].job, infoKey) :
              o.written <= r.written

\* C12 as stated: the backing store failing no statement, Get returns
\* (nil, false, nil) exactly when the key has no row in the view, and
\* otherwise found = true with the value of the newest row.
C12_Original ==
    \A t \in Txns :
        (Returned(t, "Get") /\ faults = 0) =>
            IF KeyRows(vinfo[t], handle[t].job, ret[t].infoKey) = {}
            THEN ~ret[t].found /\ ret[t].err = NoErr /\ ret[t].value = NilSlice
            ELSE ret[t].found /\ NewestValue(t, ret[t].infoKey, ret[t].value)

\* C12 amended: when the query does not fail, Get returns (nil, false, nil)
\* exactly when the key has no row in the view; when the newest row holds a
\* byte string it returns that value with found = true and no error; when the
\* newest row's value is not a byte string (NULL) it returns found = false
\* with an assertion error.  When the query fails it returns found = false
\* with the store's error.  Get changes neither the view nor the tables.
C12_Get ==
    /\ [](\A t \in Txns :
            Returned(t, "Get") =>
               LET m == KeyRows(vinfo[t], handle[t].job, ret[t].infoKey)
                   r == GetResult(ret[t].value, ret[t].found, ret[t].err)
               IN  /\ faults = 0 => r.err # ErrStore
                   /\ r.err = ErrStore => r = GetResult(NilSlice, FALSE, ErrStore)
                   /\ r.err # ErrStore =>
                         /\ r = NotFound <=> m = {}
                         /\ (m # {} /\ NewestIsBytes(t, ret[t].infoKey)) =>
                               /\ r.found /\ r.err = NoErr
                               /\ NewestValue(t, ret[t].infoKey, r.value)
                         /\ (m # {} /\ ~NewestIsBytes(t, ret[t].infoKey)) =>
                               r = GetResult(NilSlice, FALSE, ErrAssertion))
    /\ [][\A t \in Txns :
             Returns(t, "Get") =>
                /\ vinfo' = vinfo /\ vjobs' = vjobs /\ wset' = wset
                /\ job_info' = job_info /\ jobs' = jobs]_vars

\* Witness of C12: Get found the newest of two revisions of a key.
C12_Witness ==
    \E t \in Txns :
        /\ Returned(t, "Get") /\ ret[t].found
        /\ Cardinality(KeyRows(vinfo[t], handle[t].job, ret[t].infoKey)) = 2

\* C13 as stated: when visit returns an error on a key, that invocation is
\* the last one, Iterate returns visit's error, and the keys visited before
\* it are exactly the keys of the job under the prefix that are smaller.
C13_VisitErrorStops ==
    \A t \in Txns :
        (Returned(t, "Iterate") /\ ret[t].err = ErrVisit) =>
            LET vis == ret[t].visited
                n == Len(vis)
            IN  /\ n >= 1
                /\ {vis[i].infoKey : i \in 1..(n - 1)} =
                      {k \in KeysUnder(t, ret[t].infoKey) :
                          BytesLess(k, vis[n].infoKey)}

\* C14. Through a handle built with a nil transaction, Get, Write and Iterate
\* return the precondition error and nothing else: no value, no visit, no
\* cursor opened; the step issues no statement (no span is read or written,
\* no write is under way, the store fails nothing) and the views and the
\* tables are unchanged.
C14_NilTxn ==
    /\ [](ret[NilTxn].op # "none" =>
            /\ ret[NilTxn].op \in {"Get", "Write", "Iterate"}
            /\ ret[NilTxn].err = ErrNoTxn
            /\ ~ret[NilTxn].found
            /\ ret[NilTxn].op # "Write" => ret[NilTxn].value = NilSlice
            /\ ret[NilTxn].visited = <<>>
            /\ ret[NilTxn].opened = 0 /\ ret[NilTxn].closed = 0)
    /\ [][ret'[NilTxn] # ret[NilTxn] =>
             /\ job_info' = job_info /\ jobs' = jobs
             /\ vinfo' = vinfo /\ vjobs' = vjobs
             /\ rset' = rset /\ wset' = wset
             /\ pc' = pc /\ call' = call /\ checked' = checked
             /\ faults' = faults /\ status' = status]_vars

\* Witness of C14: Iterate through the nil-transaction handle returned while
\* the job has records under the prefix.
C14_Witness ==
    /\ ret[NilTxn].op = "Iterate" /\ ret[NilTxn].infoKey = <<1>>
    /\ \E r \in job_info : r.job_id = 1 /\ r.info_key = <<1, 1>>

\* What Get returns for key on the rows of t's handle's job.
GetIn(rows, t, infoKey) == get(rows, handle[t].job, infoKey, FALSE)

\* A statement of a Write on infoKey runs in this step of t, and the keys in
\* others read as before it.
WriteFrame(t, infoKey, others) ==
    (Open(t) /\ Open(t)' /\ pc[t] \in {"delete", "insert"}
       /\ call[t].infoKey = infoKey) =>
          \A k \in others : GetIn(vinfo'[t], t, k) = GetIn(vinfo[t], t, k)

\* C15. The legacy adapters round-trip: a Get of the payload (the progress,
\* an unrelated key) returns, with found = true, the value of the last Write
\* of the payload (the progress, that key) the transaction can see, and
\* not-found when there was none; no statement of a payload Write changes
\* what Get returns for the progress or for the unrelated key, and likewise
\* for the other two, in whatever order the Writes are made.
C15_LegacyRoundTrip ==
    /\ [](\A t \in Txns :
            (Returned(t, "Get") /\ ret[t].err = NoErr) =>
               LET w == seen[t][<<handle[t].job, ret[t].infoKey>>]
               IN  /\ w.state = "ok" => ret[t].found /\ ret[t].value = w.value
                   /\ w.state = "none" => ~ret[t].found)
    /\ [][\A t \in Txns :
             /\ WriteFrame(t, legacyPayloadKey, {legacyProgressKey, <<1>>})
             /\ WriteFrame(t, legacyProgressKey, {legacyPayloadKey, <<1>>})
             /\ WriteFrame(t, <<1>>, {legacyPayloadKey, legacyProgressKey})
       ]_vars

\* Witness of C15: after Writes of both, with different values, the progress
\* adapter reads back the progress.
C15_Witness ==
    \E t \in Txns :
        /\ Returned(t, "Get") /\ ret[t].infoKey = legacyProgressKey
        /\ ret[t].found
        /\ seen[t][<<1, legacyPayloadKey>>].state = "ok"
        /\ seen[t][<<1, legacyPayloadKey>>].value # ret[t].value

\* The claim check of t's handle finds the job row missing or another claim.
ClaimRefused(t) ==
    LET row == vjobs[t][handle[t].job]
    IN  /\ handle[t].session.has
        /\ \/ row.kind = "norow"
           \/ row.kind = "bytes" /\ row.id # handle[t].session.id

\* C16. Write runs claim check, delete, insert in that order, each at most
\* once, and stops at the first failure: a refused or failed claim check
\* returns its error with no delete or insert issued; the delete is issued
\* only after the check passed or was skipped; a failed delete returns the
\* store's error with no insert issued; the insert is issued only after a
\* delete that succeeded, and its outcome is what Write returns.
C16_WriteStepOrder ==
    [][\A t \in Txns :
         /\ (WriteEntry(t) /\ ClaimRefused(t)) =>
               /\ pc'[t] = "ready" /\ vinfo'[t] = vinfo[t] /\ wset'[t] = wset[t]
               /\ ret'[t].err =
                     IF ~NoFault THEN ErrStore
                     ELSE IF vjobs[t][handle[t].job].kind = "norow"
                     THEN ErrNoClaimRow ELSE ErrClaimMismatch
         /\ (WriteEntry(t) /\ handle[t].session.has /\ ~NoFault) =>
               /\ pc'[t] = "ready" /\ vinfo'[t] = vinfo[t]
               /\ ret'[t].err = ErrStore
         /\ pc'[t] # pc[t] =>
               <<pc[t], pc'[t]>> \in {<<"ready", "delete">>, <<"delete", "insert">>,
                                      <<"delete", "ready">>, <<"insert", "ready">>}
         /\ (pc[t] = "ready" /\ pc'[t] = "delete") =>
               /\ WriteEntry(t) /\ ~ClaimRefused(t) /\ vinfo'[t] = vinfo[t]
               /\ handle[t].session.has => NoFault
         /\ (pc[t] = "delete" /\ pc'[t] = "insert") => NoFault
         /\ (pc[t] = "delete" /\ pc'[t] = "ready") =>
               /\ ~NoFault /\ vinfo'[t] = vinfo[t] /\ wset'[t] = wset[t]
               /\ ret'[t] = WriteRet(call[t].seq, call[t].infoKey,
                                     call[t].value, ErrStore)
         /\ (pc[t] = "insert" /\ pc'[t] = "ready") =>
               /\ ret'[t] = WriteRet(call[t].seq, call[t].infoKey, call[t].value,
                                     IF NoFault THEN NoErr ELSE ErrStore)
               /\ ~NoFault => vinfo'[t] = vinfo[t]
         /\ (pc[t] # "ready" /\ pc'[t] = pc[t]) =>
               vinfo'[t] = vinfo[t] /\ NoFault /\ ret'[t] = ret[t]
      ]_vars

\* Witness of C16: a Write through a handle without a session returned the
\* store's error from its delete; the key's row is still in the view.
C16_Witness ==
    \E t \in Txns :
        /\ Returned(t, "Write") /\ ret[t].err = ErrStore
        /\ ~handle[t].session.has /\ ~DeletedOnly(t)
        /\ KeyRows(vinfo[t], handle[t].job, ret[t].infoKey) # {}

\* C17. When Iterate returns, the cursor it opened has been closed once: on
\* the normal end of the rows, on an error of rows.Next, on a column that is
\* not a byte string, and on an error of visit, one cursor was opened and one
\* Close was made; when the query could not be opened, or there was no
\* transaction, no cursor was opened and none closed.  Get and Write open no
\* cursor.
C17_CursorClosed ==
    \A h \in Handles :
        /\ ret[h].opened \in {0, 1} /\ ret[h].closed = ret[h].opened
        /\ ret[h].op # "Iterate" => ret[h].opened = 0
        /\ (ret[h].op = "Iterate"
              /\ ret[h].err \in {NoErr, ErrVisit, ErrAssertion}) =>
                 ret[h].opened = 1
        /\ (ret[h].op = "Iterate" /\ ret[h].visited # <<>>) => ret[h].opened = 1
        /\ ret[h].err = ErrNoTxn => ret[h].opened = 0

\* Witness of C17: Iterate returned through the type-assertion failure on a
\* value, after a visit, with its cursor closed.
C17_Witness ==
    \E t \in Txns :
        /\ Returned(t, "Iterate") /\ ret[t].err = ErrAssertion
        /\ ret[t].visited # <<>> /\ ret[t].closed = 1

\* The rows of rows that are not revisions of (job, infoKey).
OtherRows(rows, job, infoKey) == rows \ KeyRows(rows, job, infoKey)

\* C18. Frame of Write: no step of a Write (claim check, delete, insert),
\* whether it succeeds or fails, changes a row of another key of the job or
\* a row of another job, the recorded claims, or the committed tables; after
\* the Write has returned, the view differs from the one before it at most
\* in the revisions of (job, key).
C18_WriteFrame ==
    /\ [][\A t \in Txns :
             /\ (WriteEntry(t) /\ Open(t)') =>
                   vinfo'[t] = vinfo[t] /\ vjobs' = vjobs
             /\ (Open(t) /\ pc[t] \in {"delete", "insert"} /\ pc'[t] # pc[t]) =>
                   /\ OtherRows(vinfo'[t], handle[t].job, call[t].infoKey)
                         = OtherRows(vinfo[t], handle[t].job, call[t].infoKey)
                   /\ vjobs' = vjobs
                   /\ \A u \in Txns \ {t} : vinfo'[u] = vinfo[u]
             /\ (WriteEntry(t) \/ pc[t] \in {"delete", "insert"}) =>
                   job_info' = job_info /\ jobs' = jobs
       ]_vars
    /\ [](\A t \in Txns :
            Returned(t, "Write") =>
               /\ OtherRows(vinfo[t], handle[t].job, ret[t].infoKey)
                     = OtherRows(job_info, handle[t].job, ret[t].infoKey)
               /\ vjobs[t] = jobs)

\* Witness of C18: a Write returned nil while the view holds a row of another
\* key of the job and a row of the same key of another job.
C18_Witness ==
    \E t \in Txns :
        /\ Returned(t, "Write") /\ ret[t].err = NoErr
        /\ \E r \in vinfo[t] :
              r.job_id = handle[t].job /\ r.info_key # ret[t].infoKey
        /\ \E r \in vinfo[t] :
              r.job_id # handle[t].job /\ r.info_key = ret[t].infoKey

\* C19. Get and Iterate are unfenced and read-only: whatever the handle's
\* session and the job's recorded claim, the step in which one of them
\* returns reads no span of system.jobs, returns no error of the claim check
\* and ends no transaction; Get returns what the query finds in the view,
\* Iterate returns nil when the store fails nothing; views, claims, write
\* sets and committed tables are unchanged.
C19_ReadsUnfenced ==
    [][\A t \in Txns :
         (Returns(t, "Get") \/ Returns(t, "Iterate")) =>
            /\ Open(t)'
            /\ vinfo' = vinfo /\ vjobs' = vjobs /\ wset' = wset
            /\ job_info' = job_info /\ jobs' = jobs
            /\ \A sp \in rset'[t] : sp \in rset[t] \/ sp[1] = "job_info"
            /\ ret'[t].err \notin {ErrClaimMismatch, ErrNoClaimRow, Panic}
            /\ Returns(t, "Get") =>
                  GetResult(ret'[t].value, ret'[t].found, ret'[t].err)
                     = get(vinfo[t], handle[t].job, ret'[t].infoKey, ~NoFault)
            /\ (Returns(t, "Iterate") /\ NoFault) => ret'[t].err = NoErr
      ]_vars

\* Witness of C19: through a handle whose session is not the job's recorded
\* claim, Get found a value.
C19_Witness ==
    \E t \in Txns :
        /\ Returned(t, "Get") /\ ret[t].found
        /\ handle[t].session.has
        /\ vjobs[t][handle[t].job].kind = "bytes"
        /\ vjobs[t][handle[t].job].id # handle[t].session.id

\* key starts with infoPrefix.
HasPrefix(key, infoPrefix) ==
    /\ Len(key) >= Len(infoPrefix)
    /\ \A i \in 1..Len(infoPrefix) : key[i] = infoPrefix[i]

\* C20 as stated: when Iterate(prefix) returns nil, it has reported the pair
\* (k, v) if and only if k starts with the prefix and Get(k) in the same
\* transaction returns (v, true).
C20_GetIterateAgree ==
    \A t \in Txns :
        (Returned(t, "Iterate") /\ ret[t].err = NoErr) =>
            \A k \in AllKeys, v \in {r.value : r \in vinfo[t]} :
                (\E i \in 1..Len(ret[t].visited) : ret[t].visited[i] = Visit(k, v))
                <=> (/\ HasPrefix(k, ret[t].infoKey)
                     /\ GetIn(vinfo[t], t, k) = Found(v))
====
